---- MODULE Spec2Model ----
(***************************************************************************)
(* Model of the Optional<T> container of src/index.ts.                     *)
(*                                                                         *)
(* JavaScript values are tagged records.  An Optional instance is a record *)
(* holding the three private fields of the class and the reference (ref)   *)
(* of the object, so that "the same instance" and "an equal instance" are  *)
(* different things.  Every method is an operator that returns a record    *)
(*   [outcome |-> what the call returned or threw,                         *)
(*    invocations |-> the calls it made to caller-supplied callables].     *)
(* The actions apply the methods to the instance at the tip of a chain.    *)
(***************************************************************************)
EXTENDS Integers, Sequences, FiniteSets

(***************************************************************************)
(* Bounds of the model.                                                    *)
(***************************************************************************)
\* number of Optional objects one chain may allocate
MaxAlloc == 3
\* largest number in the value universe
MaxNumber == 5

(***************************************************************************)
(* JavaScript values.                                                      *)
(***************************************************************************)
Null == [type |-> "null"]
Undefined == [type |-> "undefined"]
Num(n) == [type |-> "number", n |-> n]
Bool(b) == [type |-> "boolean", b |-> b]
Str(s) == [type |-> "string", s |-> s]

Numbers == {0, MaxNumber}
Strings == {"", "str", "null", "undefined"}

\* the values that are neither null nor undefined
OrdinaryValues ==
  {Num(n) : n \in Numbers} \cup {Bool(FALSE)} \cup {Str(s) : s \in Strings}

Values == {Null, Undefined} \cup OrdinaryValues

\* the errors a caller may hand to orElseThrow
CallerErrors == {[type |-> "error", name |-> "Error", message |-> "expected"]}

InvalidValueException ==
  [type |-> "error", name |-> "InvalidValueException", message |-> ""]

(***************************************************************************)
(* Calls and their outcomes.                                               *)
(***************************************************************************)
Return(v) == [kind |-> "return", value |-> v]
Throw(e) == [kind |-> "throw", error |-> e]
\* a method declared `void` that ran to its end
ReturnVoid == [kind |-> "void"]

\* the record of a call: the receiver, the arguments, and what came of it
Call(op, receiver, arguments, result) ==
  [op |-> op, receiver |-> receiver, arguments |-> arguments,
   outcome |-> result.outcome, invocations |-> result.invocations]

Result(outcome, invocations) ==
  [outcome |-> outcome, invocations |-> invocations]

\* one call of a caller-supplied callable and the arguments it received
Invocation(fn, args) == [fn |-> fn, args |-> args]

Digit(d) ==
  CASE d = 0 -> "0" [] d = 1 -> "1" [] d = 2 -> "2" [] d = 3 -> "3"
    [] d = 4 -> "4" [] d = 5 -> "5" [] d = 6 -> "6" [] d = 7 -> "7"
    [] d = 8 -> "8" [] d = 9 -> "9"

RECURSIVE NumberToString(_)
NumberToString(n) ==
  IF n < 10 THEN Digit(n) ELSE NumberToString(n \div 10) \o Digit(n % 10)

\* String(value) of JavaScript, on the values of the universe
JsString(value) ==
  CASE value.type = "null" -> "null"
    [] value.type = "undefined" -> "undefined"
    [] value.type = "number" -> NumberToString(value.n)
    [] value.type = "boolean" -> (IF value.b THEN "true" ELSE "false")
    [] value.type = "string" -> value.s

\* the truthiness test of `if (value)`
Truthy(value) ==
  CASE value.type = "null" -> FALSE
    [] value.type = "undefined" -> FALSE
    [] value.type = "number" -> value.n # 0
    [] value.type = "boolean" -> value.b
    [] value.type = "string" -> value.s # ""

(***************************************************************************)
(* The class.                                                              *)
(***************************************************************************)
isTypeInvalid(self, value) ==
  LET valueType == JsString(value)
      isInvalidType == valueType \in self.invalidTypes
      isNotWhiteListed == valueType \notin self.allowedInvalidTypes
  IN  isInvalidType /\ isNotWhiteListed

\* new Optional(value, invalidTypes, allowedInvalidTypes), the object
\* being allocated at reference ref
Constructor(value, invalidTypes, allowedInvalidTypes, ref) ==
  LET this == [type |-> "Optional",
               invalidTypes |-> invalidTypes,
               allowedInvalidTypes |-> allowedInvalidTypes, ref |-> ref]
  IN  IF isTypeInvalid(this, value)
      THEN Throw(InvalidValueException)
      ELSE Return([type |-> "Optional", value |-> value,
                   invalidTypes |-> invalidTypes,
                   allowedInvalidTypes |-> allowedInvalidTypes, ref |-> ref])

\* of with a disallow list that forgets 'undefined'
of_nullOnly(value, ref) ==
  LET disallow == {"null"}
  IN  Constructor(value, disallow, {}, ref)

of(value, ref) ==
  LET disallow == {"null", "undefined"}
  IN  Constructor(value, disallow, {}, ref)

\* ofNullable that passes its type configuration as invalidTypes only
ofNullable_notAllowed(value, ref) ==
  LET typeConfig == {"null"}
  IN  Constructor(value, typeConfig, {}, ref)

ofNullable(value, ref) ==
  LET typeConfig == {"null"}
  IN  Constructor(value, typeConfig, typeConfig, ref)

ofUndefinable(value, ref) ==
  LET typeConfig == {"null", "undefined"}
  IN  Constructor(value, typeConfig, typeConfig, ref)

\* new Optional<T>(): the value parameter is left out, hence undefined
empty(ref) == Constructor(Undefined, {}, {}, ref)

isPresent(self) ==
  LET valueType == JsString(self.value)
  IN  valueType \notin self.invalidTypes

toString(self) ==
  LET stringValue == IF Truthy(self.value)
                     THEN "[" \o JsString(self.value) \o "]"
                     ELSE ".empty"
  IN  Result(Return(Str("Optional" \o stringValue)), <<>>)

\* ifPresent that tests the truthiness of the value
ifPresent_truthy(self, action) ==
  IF Truthy(self.value)
  THEN Result(ReturnVoid, <<Invocation(action, <<self.value>>)>>)
  ELSE Result(ReturnVoid, <<>>)

ifPresent(self, action) ==
  IF isPresent(self)
  THEN Result(ReturnVoid, <<Invocation(action, <<self.value>>)>>)
  ELSE Result(ReturnVoid, <<>>)

ifPresentOrElse(self, action, emptyAction) ==
  IF isPresent(self)
  THEN Result(ReturnVoid, <<Invocation(action, <<self.value>>)>>)
  ELSE Result(ReturnVoid, <<Invocation(emptyAction, <<>>)>>)

\* orElse written as `this.value || other`
orElse_truthy(self, other) ==
  Result(Return(IF Truthy(self.value) THEN self.value ELSE other), <<>>)

orElse(self, other) ==
  Result(Return(IF isPresent(self) THEN self.value ELSE other), <<>>)

\* orElseGet that calls the supplier before it looks at the value
orElseGet_eager(self, supplier) ==
  Result(Return(IF isPresent(self) THEN self.value ELSE supplier.returns),
         <<Invocation(supplier, <<>>)>>)

orElseGet(self, supplier) ==
  IF isPresent(self)
  THEN Result(Return(self.value), <<>>)
  ELSE Result(Return(supplier.returns), <<Invocation(supplier, <<>>)>>)

\* orElseThrow that tests the truthiness of the value
orElseThrow_truthy(self, error) ==
  IF ~Truthy(self.value)
  THEN Result(Throw(error), <<>>)
  ELSE Result(Return(self.value), <<>>)

orElseThrow(self, error) ==
  IF ~isPresent(self)
  THEN Result(Throw(error), <<>>)
  ELSE Result(Return(self.value), <<>>)

\* get that tests the truthiness of the value
get_truthy(self) ==
  IF ~Truthy(self.value)
  THEN Result(Throw(InvalidValueException), <<>>)
  ELSE Result(Return(self.value), <<>>)

get(self) ==
  IF ~isPresent(self)
  THEN Result(Throw(InvalidValueException), <<>>)
  ELSE Result(Return(self.value), <<>>)

(***************************************************************************)
(* Caller-supplied callables.  None of them throws.                        *)
(***************************************************************************)
Action == [fn |-> "action"]
EmptyAction == [fn |-> "emptyAction"]

\* a supplier is () => returns
Suppliers ==
  {[fn |-> "supplier", returns |-> v] : v \in {Str("str"), Null, Undefined}}

\* the values handed to orElse as `other`
Others == {Str("str"), Num(0), Null, Undefined}

Predicates ==
  {[fn |-> "predicate", body |-> b] : b \in {"true", "false", "truthy"}}

ApplyPredicate(predicate, value) ==
  CASE predicate.body = "true" -> TRUE
    [] predicate.body = "false" -> FALSE
    [] predicate.body = "truthy" -> Truthy(value)

Mappers ==
  {[fn |-> "mapper", body |-> b] :
     b \in {"identity", "null", "undefined", "String", "'null'"}}

ApplyMapper(mapper, value) ==
  CASE mapper.body = "identity" -> value
    [] mapper.body = "null" -> Null
    [] mapper.body = "undefined" -> Undefined
    [] mapper.body = "String" -> Str(JsString(value))
    [] mapper.body = "'null'" -> Str("null")

\* filter that returns the receiver whenever the predicate holds
filter_ignoresPresence(self, predicate, ref) ==
  LET result == ApplyPredicate(predicate, self.value)
  IN  Result(IF result THEN Return(self) ELSE empty(ref),
             <<Invocation(predicate, <<self.value>>)>>)

\* filter written as `this.isPresent() && predicate(this.value)`
filter_presenceFirst(self, predicate, ref) ==
  IF isPresent(self)
  THEN Result(IF ApplyPredicate(predicate, self.value)
              THEN Return(self)
              ELSE empty(ref),
              <<Invocation(predicate, <<self.value>>)>>)
  ELSE Result(empty(ref), <<>>)

\* filter that empties the receiver in place instead of allocating
filter_clearsThis(self, predicate, ref) ==
  LET result == ApplyPredicate(predicate, self.value)
  IN  Result(IF result /\ isPresent(self)
             THEN Return(self)
             ELSE Return([self EXCEPT !.value = Undefined,
                                      !.invalidTypes = {},
                                      !.allowedInvalidTypes = {}]),
             <<Invocation(predicate, <<self.value>>)>>)

filter(self, predicate, ref) ==
  LET result == ApplyPredicate(predicate, self.value)
  IN  Result(IF result /\ isPresent(self) THEN Return(self) ELSE empty(ref),
             <<Invocation(predicate, <<self.value>>)>>)

mapToOptional(self, value, ref) ==
  Constructor(value, self.invalidTypes, self.allowedInvalidTypes, ref)

\* map that hands back the receiver when no value is present
map_keepsThis(self, mapper, ref) ==
  LET value == ApplyMapper(mapper, self.value)
  IN  Result(IF ~isPresent(self)
             THEN Return(self)
             ELSE IF isTypeInvalid(self, value)
                  THEN empty(ref)
                  ELSE mapToOptional(self, value, ref),
             <<Invocation(mapper, <<self.value>>)>>)

\* map that wraps the result of the mapper without testing it
map_wrapsUnchecked(self, mapper, ref) ==
  LET value == ApplyMapper(mapper, self.value)
  IN  Result(IF ~isPresent(self)
             THEN empty(ref)
             ELSE mapToOptional(self, value, ref),
             <<Invocation(mapper, <<self.value>>)>>)

map(self, mapper, ref) ==
  LET value == ApplyMapper(mapper, self.value)
  IN  Result(IF ~isPresent(self) \/ isTypeInvalid(self, value)
             THEN empty(ref)
             ELSE mapToOptional(self, value, ref),
             <<Invocation(mapper, <<self.value>>)>>)

flatMap(self, mapper, ref) ==
  LET value == ApplyMapper(mapper, self.value)
  IN  Result(IF ~isPresent(self) \/ isTypeInvalid(self, value)
             THEN empty(ref)
             ELSE Return(value),
             <<Invocation(mapper, <<self.value>>)>>)

(***************************************************************************)
(* State.                                                                  *)
(*   root       the instance the last factory call built (NoOptional when  *)
(*              there is none), factory the name of that factory           *)
(*   self       the instance at the tip of the chain, the receiver of the  *)
(*              next method call                                           *)
(*   call       the last call: its receiver, arguments, outcome and the    *)
(*              invocations of callables it made                           *)
(*   allocated  number of Optional objects allocated since the factory call*)
(***************************************************************************)
VARIABLES root, factory, self, call, allocated

vars == <<root, factory, self, call, allocated>>

NoOptional == [type |-> "none"]

IsOptional(x) == x.type = "Optional"

Init ==
  /\ root = NoOptional
  /\ factory = "none"
  /\ self = NoOptional
  /\ call = Call("none", NoOptional, <<>>, Result(ReturnVoid, <<>>))
  /\ allocated = 0

\* a static factory starts a chain: the instance it returns is the root
Factory(name, args, outcome) ==
  /\ call' = Call(name, NoOptional, args, Result(outcome, <<>>))
  /\ factory' = name
  /\ root' = IF outcome.kind = "return" THEN outcome.value ELSE NoOptional
  /\ self' = root'
  /\ allocated' = 1

OfCall == \E v \in Values : Factory("of", <<v>>, of(v, 1))

OfNullableCall == \E v \in Values : Factory("ofNullable", <<v>>, ofNullable(v, 1))

OfUndefinableCall ==
  \E v \in Values : Factory("ofUndefinable", <<v>>, ofUndefinable(v, 1))

EmptyCall == Factory("empty", <<>>, empty(1))

\* a method that returns no Optional: the chain stays where it is
Method(op, args, result) ==
  /\ IsOptional(self)
  /\ call' = Call(op, self, args, result)
  /\ UNCHANGED <<root, factory, self, allocated>>

IsPresentCall ==
  Method("isPresent", <<>>, Result(Return(Bool(isPresent(self))), <<>>))

ToStringCall == Method("toString", <<>>, toString(self))

IfPresentCall == Method("ifPresent", <<Action>>, ifPresent(self, Action))

IfPresentOrElseCall ==
  Method("ifPresentOrElse", <<Action, EmptyAction>>,
         ifPresentOrElse(self, Action, EmptyAction))

OrElseCall == \E other \in Others : Method("orElse", <<other>>, orElse(self, other))

OrElseGetCall ==
  \E supplier \in Suppliers :
    Method("orElseGet", <<supplier>>, orElseGet(self, supplier))

OrElseThrowCall ==
  \E error \in CallerErrors :
    Method("orElseThrow", <<error>>, orElseThrow(self, error))

GetCall == Method("get", <<>>, get(self))

\* a method that may allocate an Optional; when it returns an Optional the
\* chain goes on from it
Transform(op, args, result) ==
  /\ IsOptional(self)
  /\ allocated < MaxAlloc
  /\ call' = Call(op, self, args, result)
  /\ self' = IF result.outcome.kind = "return" /\ IsOptional(result.outcome.value)
             THEN result.outcome.value
             ELSE self
  /\ allocated' = allocated + 1
  /\ UNCHANGED <<root, factory>>

FilterCall ==
  \E predicate \in Predicates :
    Transform("filter", <<predicate>>, filter(self, predicate, allocated + 1))

MapCall ==
  \E mapper \in Mappers :
    Transform("map", <<mapper>>, map(self, mapper, allocated + 1))

FlatMapCall ==
  \E mapper \in Mappers :
    Transform("flatMap", <<mapper>>, flatMap(self, mapper, allocated + 1))

Next ==
  \/ OfCall
  \/ OfNullableCall
  \/ OfUndefinableCall
  \/ EmptyCall
  \/ IsPresentCall
  \/ ToStringCall
  \/ IfPresentCall
  \/ IfPresentOrElseCall
  \/ OrElseCall
  \/ OrElseGetCall
  \/ OrElseThrowCall
  \/ GetCall
  \/ FilterCall
  \/ MapCall
  \/ FlatMapCall

Spec == Init /\ [][Next]_vars

(***************************************************************************)
(* Properties.                                                             *)
(***************************************************************************)
\* the absence marker of a value: which of null / undefined it is, if any
Marker(value) ==
  CASE value.type = "null" -> "null"
    [] value.type = "undefined" -> "undefined"
    [] OTHER -> "none"

\* the last call was method op on an instance
Called(op) == call.op = op /\ IsOptional(call.receiver)

\* the last call was method op on the instance a factory returned
CalledOnRoot(name, op) ==
  Called(op) /\ factory = name /\ call.receiver = root

\* C1: for every value v that is neither null nor undefined (falsy values
\* and the strings 'null' and 'undefined' included) Optional.of(v)
\* constructs without error, of(v).isPresent() is true and of(v).get()
\* returns v.
C1_OfOrdinaryValue ==
  /\ (call.op = "of" /\ call.arguments[1] \in OrdinaryValues)
       => /\ call.outcome.kind = "return"
          /\ call.outcome.value.value = call.arguments[1]
  /\ CalledOnRoot("of", "isPresent") => call.outcome = Return(Bool(TRUE))
  /\ CalledOnRoot("of", "get") => call.outcome = Return(root.value)

\* C2: Optional.of(null) and Optional.of(undefined) both fail with
\* InvalidValueException and produce no instance.
C2_OfRejectsMarkers ==
  (call.op = "of" /\ call.arguments[1] \in {Null, Undefined})
    => /\ call.outcome = Throw(InvalidValueException)
       /\ root = NoOptional
       /\ self = NoOptional

C2_Witness ==
  /\ call.op = "of"
  /\ call.arguments = <<Undefined>>
  /\ call.outcome.kind = "throw"

\* C3: Optional.ofNullable(v), Optional.ofUndefinable(v) and
\* Optional.empty() never raise a construction error, for every input v
\* including null and undefined: each returns an instance.
C3_LenientFactoriesNeverThrow ==
  call.op \in {"ofNullable", "ofUndefinable", "empty"}
    => /\ call.outcome.kind = "return"
       /\ IsOptional(call.outcome.value)
       /\ self = call.outcome.value

C3_Witness ==
  /\ call.op = "ofNullable"
  /\ call.arguments = <<Null>>
  /\ IsOptional(self)
  /\ self.value = Null

\* C4: isPresent() is true exactly when the absence marker of the stored
\* value is not in the invalidTypes of the instance; a stored value that is
\* neither null nor undefined (the strings 'null' and 'undefined' included)
\* is always present.
C4_IsPresentByMarker ==
  Called("isPresent")
    => call.outcome =
         Return(Bool(Marker(call.receiver.value) \notin call.receiver.invalidTypes))

\* C5: Optional.empty() returns an instance in which no value is present:
\* isPresent() on it returns false.
C5_EmptyIsAbsent ==
  CalledOnRoot("empty", "isPresent") => call.outcome = Return(Bool(FALSE))

\* C6: get() returns the stored value when isPresent() is true (falsy
\* values included) and fails with InvalidValueException when isPresent()
\* is false, on the null and on the undefined absence path.
C6_Get ==
  Called("get")
    => /\ isPresent(call.receiver)
            => call.outcome = Return(call.receiver.value)
       /\ ~isPresent(call.receiver)
            => call.outcome = Throw(InvalidValueException)
       /\ call.invocations = <<>>

C6_Witness ==
  /\ CalledOnRoot("ofUndefinable", "get")
  /\ call.receiver.value = Undefined
  /\ call.outcome.kind = "throw"

\* C7: orElse(other) returns the stored value when the instance is present
\* and returns other as it is (null and undefined included) when the
\* instance is absent.
C7_OrElse ==
  Called("orElse")
    => /\ isPresent(call.receiver)
            => call.outcome = Return(call.receiver.value)
       /\ ~isPresent(call.receiver)
            => call.outcome = Return(call.arguments[1])

C7_Witness ==
  /\ Called("orElse")
  /\ ~isPresent(call.receiver)
  /\ call.arguments = <<Undefined>>
  /\ call.outcome = Return(Undefined)

\* C8: orElseGet(supplier) is lazy: on a present instance the supplier is
\* not invoked and the stored value is returned; on an absent instance the
\* supplier is invoked exactly once, with no arguments, and its result is
\* returned.
C8_OrElseGetLazy ==
  Called("orElseGet")
    => /\ isPresent(call.receiver)
            => /\ call.invocations = <<>>
               /\ call.outcome = Return(call.receiver.value)
       /\ ~isPresent(call.receiver)
            => /\ call.invocations = <<Invocation(call.arguments[1], <<>>)>>
               /\ call.outcome = Return(call.arguments[1].returns)

C8_Witness ==
  /\ Called("orElseGet")
  /\ isPresent(call.receiver)
  /\ call.receiver.value = Num(0)
  /\ call.invocations = <<>>

\* C9: orElseThrow(error) returns the stored value when the instance is
\* present (falsy values included) and otherwise throws the error of the
\* caller, as it was given.
C9_OrElseThrow ==
  Called("orElseThrow")
    => /\ isPresent(call.receiver)
            => call.outcome = Return(call.receiver.value)
       /\ ~isPresent(call.receiver)
            => call.outcome = Throw(call.arguments[1])

C9_Witness ==
  /\ Called("orElseThrow")
  /\ call.receiver.value = Str("")
  /\ call.outcome = Return(Str(""))

\* C10: ifPresent(action) invokes action once with the stored value iff
\* isPresent() is true and invokes nothing otherwise;
\* ifPresentOrElse(action, emptyAction) invokes exactly one of the two,
\* once: action with the stored value iff present, emptyAction iff absent.
C10_ConditionalExecution ==
  /\ Called("ifPresent")
       => call.invocations =
            IF isPresent(call.receiver)
            THEN <<Invocation(call.arguments[1], <<call.receiver.value>>)>>
            ELSE <<>>
  /\ Called("ifPresentOrElse")
       => call.invocations =
            IF isPresent(call.receiver)
            THEN <<Invocation(call.arguments[1], <<call.receiver.value>>)>>
            ELSE <<Invocation(call.arguments[2], <<>>)>>

C10_Witness ==
  /\ Called("ifPresent")
  /\ call.receiver.value = Bool(FALSE)
  /\ isPresent(call.receiver)
  /\ Len(call.invocations) = 1

\* C11: map and flatMap short-circuit on an absent instance: when
\* isPresent() is false the mapper is never invoked.
C11_MapShortCircuits ==
  ((Called("map") \/ Called("flatMap")) /\ ~isPresent(call.receiver))
    => call.invocations = <<>>

\* equality of two instances as an assertion sees it: field by field,
\* whichever objects they are
SameContents(a, b) ==
  /\ a.value = b.value
  /\ a.invalidTypes = b.invalidTypes
  /\ a.allowedInvalidTypes = b.allowedInvalidTypes

\* x is an instance equal to Optional.empty()
EqualsEmpty(x) == IsOptional(x) /\ SameContents(x, empty(x.ref).value)

\* C12: on an absent instance (ofNullable(null), ofUndefinable(null),
\* ofUndefinable(undefined)) map(f) and flatMap(f) return an Optional equal
\* to Optional.empty(): the same stored value and the same marker sets.
C12_MapOfAbsentIsEmpty ==
  ((Called("map") \/ Called("flatMap")) /\ ~isPresent(call.receiver))
    => /\ call.outcome.kind = "return"
       /\ EqualsEmpty(call.outcome.value)
       /\ call.outcome.value.value = Undefined
       /\ call.outcome.value.invalidTypes = {}

C12_Witness ==
  /\ CalledOnRoot("ofUndefinable", "map")
  /\ call.receiver.value = Null
  /\ EqualsEmpty(call.outcome.value)

\* what the mapper handed to the last map or flatMap call returns for the
\* value of the receiver
Mapped == ApplyMapper(call.arguments[1], call.receiver.value)

\* the absence marker of value is one that instance x treats as invalid and
\* does not allow
MarkerInvalid(x, value) ==
  /\ Marker(value) \in x.invalidTypes
  /\ Marker(value) \notin x.allowedInvalidTypes

\* C13: for every present instance built by a factory, if the mapper
\* returns null then map returns an empty Optional, that is a result whose
\* isPresent() is false.
C13_MapToNullIsAbsent ==
  (Called("map") /\ call.receiver = root /\ isPresent(call.receiver)
     /\ Mapped = Null)
    => /\ call.outcome.kind = "return"
       /\ IsOptional(call.outcome.value)
       /\ ~isPresent(call.outcome.value)

\* C14: map on a present instance whose mapper result is not invalid under
\* the configuration of the instance returns a new Optional that stores the
\* result of the mapper, so that get() yields it, and whose invalidTypes
\* and allowedInvalidTypes are those of the source instance.
C14_MapWrapsResult ==
  (Called("map") /\ isPresent(call.receiver)
     /\ ~MarkerInvalid(call.receiver, Mapped))
    => /\ call.outcome.kind = "return"
       /\ IsOptional(call.outcome.value)
       /\ call.outcome.value.ref # call.receiver.ref
       /\ call.outcome.value.value = Mapped
       /\ get(call.outcome.value).outcome = Return(Mapped)
       /\ call.outcome.value.invalidTypes = call.receiver.invalidTypes
       /\ call.outcome.value.allowedInvalidTypes
            = call.receiver.allowedInvalidTypes

\* C15: flatMap on a present instance returns the result of the mapper as
\* it is, not wrapped in an Optional, whenever that result is not invalid
\* under the configuration of the instance; if the marker of the result is
\* in invalidTypes and not in allowedInvalidTypes it returns an empty
\* Optional instead.
C15_FlatMapReturnsRaw ==
  (Called("flatMap") /\ isPresent(call.receiver))
    => IF MarkerInvalid(call.receiver, Mapped)
       THEN call.outcome.kind = "return" /\ EqualsEmpty(call.outcome.value)
       ELSE call.outcome = Return(Mapped)

\* C16: filter(predicate) returns the very instance it was called on when
\* the instance is present and the predicate returned true; in every other
\* case it returns a fresh empty Optional, which is not the receiver and is
\* equal to Optional.empty().
C16_Filter ==
  Called("filter")
    => IF isPresent(call.receiver)
            /\ ApplyPredicate(call.arguments[1], call.receiver.value)
       THEN call.outcome = Return(call.receiver)
       ELSE /\ call.outcome.kind = "return"
            /\ EqualsEmpty(call.outcome.value)
            /\ call.outcome.value.ref # call.receiver.ref

C16_Witness ==
  /\ Called("filter")
  /\ call.arguments[1].body = "true"
  /\ call.receiver.value = Null
  /\ ~isPresent(call.receiver)
  /\ EqualsEmpty(call.outcome.value)
  /\ call.outcome.value.ref # call.receiver.ref

\* C17: toString() returns "Optional.empty" exactly when isPresent() is
\* false and "Optional[<string form of the value>]" exactly when
\* isPresent() is true, for every instance.
C17_ToString ==
  Called("toString")
    => call.outcome =
         Return(Str(IF isPresent(call.receiver)
                    THEN "Optional[" \o JsString(call.receiver.value) \o "]"
                    ELSE "Optional.empty"))

\* C18: in a chain that ends in orElse(d) the default d is returned
\* whenever an earlier step produced no value: x.map(f).orElse(d) returns d
\* for every absent x, and x.filter(p).orElse(d) returns d for every x and
\* every p that returns false.
C18_ChainFallsBackToDefault ==
  (\/ Called("map") /\ ~isPresent(call.receiver)
   \/ Called("filter")
        /\ ~ApplyPredicate(call.arguments[1], call.receiver.value))
    => \A d \in Others : orElse(call.outcome.value, d).outcome = Return(d)

C20_ConfigurationThreaded ==
  (Called("map") \/ Called("filter"))
    => /\ call.outcome.kind = "return"
       /\ call.outcome.value.invalidTypes = call.receiver.invalidTypes
       /\ call.outcome.value.allowedInvalidTypes
            = call.receiver.allowedInvalidTypes
       /\ (factory = "ofUndefinable" /\ call.receiver = root
             /\ call.outcome.value.value \in {Null, Undefined})
            => ~isPresent(call.outcome.value)

\* the static factories, which have no receiver
Factories == {"of", "ofNullable", "ofUndefinable", "empty"}

\* the methods the claim of idempotence names
Queries == {"isPresent", "toString", "get"}

\* C21: instances are immutable.  A method call, whichever it is, leaves
\* the instance the factory returned as it was, and the object it was
\* called on has the same stored value, invalidTypes and
\* allowedInvalidTypes afterwards; hence isPresent(), toString() and get()
\* called again on the same instance give the same result or failure.
C21_Immutable ==
  [][call'.op \notin Factories
       => /\ call'.receiver = self
          /\ root' = root
          /\ self'.ref = self.ref => self' = self
          /\ (call'.outcome.kind = "return"
                /\ call'.outcome.value.type = "Optional"
                /\ call'.outcome.value.ref = self.ref)
               => call'.outcome.value = self
          /\ (call.op \in Queries /\ call'.op = call.op
                /\ call'.receiver = call.receiver)
               => call'.outcome = call.outcome]_vars

C21_Witness ==
  /\ Called("filter")
  /\ call.outcome = Return(call.receiver)
  /\ self = call.receiver
  /\ root = self
  /\ allocated = 3

\* C22: for every instance reached from Optional.of(v) or
\* Optional.ofUndefinable(v) through map and filter calls: if isPresent()
\* is true then the stored value, and so the result of get(), is neither
\* null nor undefined.
C22_PresentValueIsNoMarker ==
  /\ (call.op \in {"of", "ofUndefinable"} /\ IsOptional(root)
        /\ isPresent(root))
       => root.value \notin {Null, Undefined}
  /\ ((Called("map") \/ Called("filter"))
        /\ factory \in {"of", "ofUndefinable"} /\ call.receiver = root
        /\ call.outcome.kind = "return" /\ isPresent(call.outcome.value))
       => /\ call.outcome.value.value \notin {Null, Undefined}
          /\ get(call.outcome.value).outcome
               \notin {Return(Null), Return(Undefined)}

\* C23: with callables that do not throw, filter, map and flatMap never
\* raise InvalidValueException, on an instance a factory built or on one
\* derived from it: the construction inside map is reached only with a
\* value that passes the validity check of the constructor under the same
\* configuration.
C23_TransformsNeverThrow ==
  (Called("filter") \/ Called("map") \/ Called("flatMap"))
    => /\ call.outcome.kind = "return"
       /\ Called("map") => /\ IsOptional(call.outcome.value)
                           /\ ~isTypeInvalid(call.outcome.value,
                                             call.outcome.value.value)

C23_Witness ==
  /\ CalledOnRoot("of", "map")
  /\ isPresent(call.receiver)
  /\ call.arguments[1].body = "String"
  /\ call.outcome.kind = "return"
  /\ call.outcome.value.value = Mapped
  /\ call.outcome.value.invalidTypes = {"null", "undefined"}
  /\ call.outcome.value.ref # call.receiver.ref

====
